---- MODULE Spec2Model ----
(***************************************************************************)
(* State-machine model of the satellite simulation core:                   *)
(*   PhysicsEngine        (src/src/physics-engine.ts)                      *)
(*   SatelliteSimulation  (src/src/simulation.ts)                          *)
(*   SceneSetup           (src/src/scene-setup.ts)                         *)
(*   ControlsManager      (src/unnamed/part_000, controls-manager.ts)      *)
(*                                                                         *)
(* Numbers.  The program computes in IEEE doubles; the model computes in   *)
(* fixed point on integers that stay inside 32 bits:                       *)
(*   position      metres            velocity      millimetres / second    *)
(*   time step     milliseconds      acceleration  millimetres / second^2  *)
(*   force         newtons           mass          kilograms               *)
(*   drag coeff.   tenths            area          square metres           *)
(* Divisions truncate toward zero.  Motion is planar: every caller of      *)
(* addSatellite and resetSatellite builds vectors with z = 0, and the      *)
(* integrator keeps z = 0.                                                 *)
(* A density (kg/m^3) is a decimal floating-point record [m, e] standing   *)
(* for m * 10^e, normalised to a five-digit mantissa; exponents of         *)
(* Math.exp are resolved to 10^-3, so a modelled density is within about   *)
(* 0.1% of the double the program computes.                                *)
(***************************************************************************)
EXTENDS Integers, Sequences, FiniteSets, TLC

VARIABLES
    satellites,               \* PhysicsEngine.satellites
    sceneSatellites,          \* SceneSetup.satellites (meshes, by identity)
    trails,                   \* SceneSetup.trails
    trailLines,               \* SceneSetup.trailLines (lines, by identity)
    status,                   \* textContent of the DOM element "status"
    timeScale,                \* SatelliteSimulation.timeScale
    frameCount,               \* SatelliteSimulation.frameCount
    followSatelliteIndex,     \* CameraController.followSatelliteIndex (0-based)
    nextId,                   \* identities handed out to created objects
    atmosphericDensityCache,  \* PhysicsEngine.atmosphericDensityCache
    densityReturns,           \* history: [altitude, rho] of every density call made
    deleteButtons,            \* the satellite list shows main.ts's Delete buttons
    heap,                     \* THREE.Vector3 objects by identity: their values
    registered,               \* PhysicsEngine.satellites with vectors by identity
    callerVectors,            \* the vectors a caller of addSatelliteState holds
    lastRemoval,              \* history: followSelect.value at the last removal request
    loading                   \* calls of SceneSetup.addSatellite awaiting loadAsync

\* the object graph of the addSatelliteState callers
heapVars == <<heap, registered, callerVectors>>

vars == <<satellites, sceneSatellites, trails, trailLines, status, timeScale,
          frameCount, followSatelliteIndex, nextId, atmosphericDensityCache,
          densityReturns, deleteButtons, heapVars, lastRemoval, loading>>

simVars == <<satellites, sceneSatellites, trails, trailLines, status, timeScale,
             frameCount, followSatelliteIndex, nextId, deleteButtons, heapVars,
             lastRemoval, loading>>

-----------------------------------------------------------------------------
(* Integer helpers                                                         *)

Abs(a) == IF a < 0 THEN -a ELSE a

Sign(a) == IF a < 0 THEN -1 ELSE 1

Max(a, b) == IF a >= b THEN a ELSE b

\* a / b truncated toward zero, b # 0
Quot(a, b) == Sign(a) * Sign(b) * (Abs(a) \div Abs(b))

\* a * b / c truncated toward zero, without forming a * b when a is large
MulDiv(a, b, c) ==
    LET A == Abs(a)
        B == Abs(b)
        C == Abs(c)
    IN  Sign(a) * Sign(b) * Sign(c) * ((A \div C) * B + ((A % C) * B) \div C)

RECURSIVE Pow10(_)
Pow10(n) == IF n <= 0 THEN 1 ELSE 10 * Pow10(n - 1)

RECURSIVE SqrtSearch(_, _, _)
SqrtSearch(s, lo, hi) ==
    IF lo >= hi THEN lo
    ELSE LET mid == (lo + hi + 1) \div 2
         IN  IF mid * mid <= s THEN SqrtSearch(s, mid, hi)
                               ELSE SqrtSearch(s, lo, mid - 1)

\* Math.sqrt on a non-negative integer, rounded down
Sqrt(s) == SqrtSearch(s, 0, 46340)

-----------------------------------------------------------------------------
(* Math.exp, Math.pow on fixed point                                       *)

\* Taylor sum of exp(-r/1000) scaled by 10^5, for 0 <= r < 2303
RECURSIVE ExpTaylor(_, _, _, _)
ExpTaylor(r, n, term, acc) ==
    IF term = 0 \/ n > 14 THEN acc
    ELSE LET next == (term * r) \div (1000 * n)
         IN  ExpTaylor(r, n + 1, next,
                       IF n % 2 = 1 THEN acc - next ELSE acc + next)

\* Math.exp(-y/1000) as [m, k]: m * 10^-5 * 10^-k, with ln 10 = 2.303
ExpNeg(y) ==
    [m |-> ExpTaylor(y % 2303, 1, 100000, 100000), k |-> y \div 2303]

\* -ln(1 - u/10^5) scaled by 10^5, for 0 <= u < 30000
RECURSIVE LnTaylor(_, _, _, _)
LnTaylor(u, n, power, acc) ==
    IF power = 0 \/ n > 14 THEN acc
    ELSE LnTaylor(u, n + 1, (power * u) \div 100000, acc + power \div n)

NegLn1m(u) == LnTaylor(u, 1, u, 0)

\* a density m * 10^e with the mantissa brought to five digits
RECURSIVE Normalise(_)
Normalise(d) ==
    IF d.m = 0 THEN [m |-> 0, e |-> 0]
    ELSE IF d.m >= 100000 THEN Normalise([m |-> d.m \div 10, e |-> d.e + 1])
    ELSE IF d.m < 10000 THEN Normalise([m |-> d.m * 10, e |-> d.e - 1])
    ELSE d

\* coefficient c * 10^ce times Math.exp(-y/1000)
ScaledExp(c, ce, y) ==
    LET E == ExpNeg(y)
    IN  Normalise([m |-> c * E.m, e |-> ce - 5 - E.k])

-----------------------------------------------------------------------------
(* PhysicsEngine.calculateAtmosphericDensity                               *)

\* Math.round(altitude / 100) * 100; Math.round rounds halves up, and the
\* Map treats the keys -0 and +0 as one key
CacheKey(altitude) == ((altitude + 50) \div 100) * 100

\* The branch of the if-chain that altitude h (already clamped) takes:
\* the first test that succeeds, in the order the code makes them
Band(h) ==
    IF h >= 1000000 THEN 11
    ELSE IF h < 11000 THEN 1
    ELSE IF h < 20000 THEN 2
    ELSE IF h < 32000 THEN 3
    ELSE IF h < 47000 THEN 4
    ELSE IF h < 51000 THEN 5
    ELSE IF h < 71000 THEN 6
    ELSE IF h < 100000 THEN 7
    ELSE IF h < 200000 THEN 8
    ELSE IF h < 500000 THEN 9
    ELSE 10

\* The formula of branch b at altitude h
BandFormula(b, h) ==
    CASE b = 11 -> [m |-> 0, e |-> 0]
      [] b = 1 ->
            \* 1.225 * pow(1 - 0.0065 h / 288.15, 4.256)
            \*   = 1.225 * exp(-4.256 * -ln(1 - h / 44330.77))
            ScaledExp(1225, -3,
                      (NegLn1m((h * 100000) \div 44331) * 4256) \div 100000)
      [] b = 2 -> ScaledExp(3639, -4, ((h - 11000) * 10000) \div 63416)
      [] b = 3 -> ScaledExp(88, -3, ((h - 20000) * 1000) \div 7360)
      [] b = 4 -> ScaledExp(132, -4, ((h - 32000) * 1000) \div 8000)
      [] b = 5 -> ScaledExp(143, -5, ((h - 47000) * 1000) \div 7500)
      [] b = 6 -> ScaledExp(86, -6, ((h - 51000) * 1000) \div 10000)
      [] b = 7 -> ScaledExp(32, -7, ((h - 71000) * 1000) \div 15000)
      [] b = 8 -> ScaledExp(1, -9, ((h - 100000) * 1000) \div 25000)
      [] b = 9 -> ScaledExp(1, -11, ((h - 200000) * 1000) \div 100000)
      [] OTHER -> ScaledExp(1, -13, ((h - 500000) * 1000) \div 500000)

\* rho on a cache miss with the exponent of line 56 measured from the top
\* of the band: 0.3639 * Math.exp(-(20000 - h) / 6341.6)
BandDensityFromTop(altitude) ==
    IF Band(Max(0, altitude)) = 2
    THEN ScaledExp(3639, -4, ((20000 - Max(0, altitude)) * 10000) \div 63416)
    ELSE BandFormula(Band(Max(0, altitude)), Max(0, altitude))

\* rho as computed on a cache miss: h = Math.max(0, altitude), then the chain
BandDensity(altitude) == BandFormula(Band(Max(0, altitude)), Max(0, altitude))

\* DensityValue with the cache lookup of lines 40-42 left out
DensityValueNoLookup(cache, altitude) == BandDensity(altitude)

\* The value a call returns in cache state `cache`
DensityValue(cache, altitude) ==
    IF CacheKey(altitude) \in DOMAIN cache
    THEN cache[CacheKey(altitude)]
    ELSE BandDensity(altitude)

\* The cache after a call that stores its result also on a hit
DensityCacheOverwrite(cache, altitude) ==
    [k \in DOMAIN cache \cup {CacheKey(altitude)} |->
        IF k = CacheKey(altitude) THEN BandDensity(altitude) ELSE cache[k]]

\* The cache after the call
DensityCache(cache, altitude) ==
    IF CacheKey(altitude) \in DOMAIN cache
    THEN cache
    ELSE [k \in DOMAIN cache \cup {CacheKey(altitude)} |->
            IF k = CacheKey(altitude) THEN BandDensity(altitude) ELSE cache[k]]

\* Altitudes (metres) the density function is called with
Altitudes ==
    {-500, -30, 0, 40, 50, 10960, 11000, 199960, 200000,
     999960, 1000000, 1000040}

calculateAtmosphericDensity(altitude) ==
    /\ atmosphericDensityCache' =
           DensityCache(atmosphericDensityCache, altitude)
    /\ densityReturns' = densityReturns \cup
           {[altitude |-> altitude,
             rho |-> DensityValue(atmosphericDensityCache, altitude)]}
    /\ UNCHANGED simVars

-----------------------------------------------------------------------------
(* Program constants and vectors                                           *)

EARTH_RADIUS == 6371000

\* G * EARTH_MASS = 6.6743e-11 * 5.972e24 = 3.98589196e14 m^3/s^2,
\* written in units of 10^6 m^3/s^2
GM == 398589196

\* the deltaTime animate() passes to updatePhysics: 0.016 s
DeltaTimeMs == 16

maxTrailLength == 1000

Vec(x, y) == [x |-> x, y |-> y]

VecAdd(a, b) == Vec(a.x + b.x, a.y + b.y)

VecSub(a, b) == Vec(a.x - b.x, a.y - b.y)

\* Vector3.length(): exact (rounded down) for short vectors; for long ones
\* the components are split into thousands, 1000*xk + xr, and the root of
\* 10^6 (xk^2 + yk^2) + 2000 (xk xr + yk yr) is taken to first order,
\* which is exact for a vector along an axis and within a unit otherwise
Length(v) ==
    IF Abs(v.x) <= 30000 /\ Abs(v.y) <= 30000
    THEN Sqrt(v.x * v.x + v.y * v.y)
    ELSE LET xk == Quot(v.x, 1000)
             yk == Quot(v.y, 1000)
             xr == v.x - 1000 * xk
             yr == v.y - 1000 * yk
             S  == xk * xk + yk * yk
             dk == Sqrt(S)
         IN  1000 * dk
               + Quot(1000 * (S - dk * dk) + 2 * (xk * xr + yk * yr), 2 * dk)

\* v * dt / 10^6: (mm/s) * ms -> m
TimesDt(v, dt) == MulDiv(v, dt \div 1000, 1000) + MulDiv(v, dt % 1000, 1000000)

\* Math.cos / Math.sin of deg * PI / 180, scaled by 10^4, at the angles used
Cos4(deg) == CASE deg = 0 -> 10000 [] deg = 45 -> 7071 [] deg = 90 -> 0
               [] deg = 135 -> -7071 [] deg = 180 -> -10000 [] OTHER -> 0

Sin4(deg) == CASE deg = 0 -> 0 [] deg = 45 -> 7071 [] deg = 90 -> 10000
               [] deg = 135 -> 7071 [] deg = 180 -> 0 [] OTHER -> 0

-----------------------------------------------------------------------------
(* PhysicsEngine.addSatelliteState                                         *)

Has(options, field) == field \in DOMAIN options

\* options?.mass || 1000: a missing or zero mass becomes 1000, any other
\* number (a negative one too) is kept
MassOrDefault(options) ==
    IF Has(options, "mass") /\ options.mass # 0 THEN options.mass ELSE 1000

\* the record pushed on this.satellites; id stands for the object's identity.
\* initialDensity, densityScaleHeight and the per-body timeScale are stored
\* too and never read again.
addSatelliteState(options, id) ==
    [id |-> id,
     position |-> IF Has(options, "position") THEN options.position
                  ELSE Vec(EARTH_RADIUS + 400000, 0),
     velocity |-> IF Has(options, "velocity") THEN options.velocity
                  ELSE Vec(0, 7800000),
     mass |-> MassOrDefault(options),
     dragCoefficient |-> IF Has(options, "dragCoefficient")
                         THEN options.dragCoefficient ELSE 22,
     area |-> IF Has(options, "area") THEN options.area ELSE 4,
     airEnabled |-> IF Has(options, "airEnabled")
                    THEN options.airEnabled ELSE TRUE]

-----------------------------------------------------------------------------
(* PhysicsEngine.updatePhysics                                             *)

\* the crash test of line 152
InCrashZone(distance) == distance <= EARTH_RADIUS + 50000

\* G * M / distance^2 in mm/s^2
GravityAcceleration(distance) ==
    Quot(MulDiv(GM, 1000, distance \div 1000), distance \div 1000)

\* gravityForce (N): forceMagnitude along -normalize(position)
GravityForce(sat) ==
    LET distance == Length(sat.position)
        forceMagnitude == MulDiv(GravityAcceleration(distance), sat.mass, 1000)
        dk == distance \div 1000
    IN  Vec(-MulDiv(forceMagnitude, Quot(sat.position.x, 1000), dk),
            -MulDiv(forceMagnitude, Quot(sat.position.y, 1000), dk))

\* 1.225 * Math.exp(-altitude / 8500) in units of 10^-9 kg/m^3
SimpleDensity(altitude) ==
    LET E == ExpNeg(MulDiv(altitude, 2, 17))
    IN  IF E.k = 0 THEN 1225 * E.m * 10
        ELSE IF E.k > 9 THEN 0
        ELSE (1225 * E.m) \div Pow10(E.k - 1)

\* 0.5 * rho * v^2 * Cd * A in N, speed in m/s
DragMagnitude(altitude, speed, dragCoeff, area) ==
    ((((SimpleDensity(altitude) \div 100) * ((speed * speed) \div 10000))
        \div 1000) * (dragCoeff * area)) \div 20

\* dragForce (N) of lines 166-183: the test reads altitude and speed only
DragForce(sat) ==
    LET altitude == Length(sat.position) - EARTH_RADIUS
        velocity == Length(sat.velocity) \div 1000
    IN  IF altitude < 500000 /\ Length(sat.velocity) > 1000
        THEN LET dragMagnitude ==
                     DragMagnitude(altitude, velocity,
                                   sat.dragCoefficient, sat.area)
             IN  Vec(-MulDiv(dragMagnitude, Quot(sat.velocity.x, 1000), velocity),
                     -MulDiv(dragMagnitude, Quot(sat.velocity.y, 1000), velocity))
        ELSE Vec(0, 0)

\* acceleration = (gravityForce + dragForce) / mass, in mm/s^2
Acceleration(sat) ==
    LET totalForce == VecAdd(GravityForce(sat), DragForce(sat))
    IN  Vec(MulDiv(totalForce.x, 1000, sat.mass),
            MulDiv(totalForce.y, 1000, sat.mass))

\* line 191 with the frame's deltaTime in the place of the scaled dt
AddAccelerationFixedStep(velocity, acceleration, dt) ==
    VecAdd(velocity, Vec(MulDiv(acceleration.x, DeltaTimeMs, 1000),
                         MulDiv(acceleration.y, DeltaTimeMs, 1000)))

\* line 191: sat.velocity.add(acceleration.multiplyScalar(dt))
AddAcceleration(velocity, acceleration, dt) ==
    VecAdd(velocity, Vec(MulDiv(acceleration.x, dt, 1000),
                         MulDiv(acceleration.y, dt, 1000)))

\* line 193: sat.position.add(sat.velocity.clone().multiplyScalar(dt)), the
\* velocity being the one line 191 has already updated
AddVelocity(sat, velocity, dt) ==
    [sat EXCEPT !.velocity = velocity,
                !.position = VecAdd(sat.position,
                                    Vec(TimesDt(velocity.x, dt),
                                        TimesDt(velocity.y, dt)))]

\* lines 191-193 in the other order: the position moves with the velocity
\* the tick started with, then the velocity is updated
IntegratePositionFirst(sat, dt) ==
    [AddVelocity(sat, sat.velocity, dt)
        EXCEPT !.velocity = AddAcceleration(sat.velocity, Acceleration(sat), dt)]

\* lines 191-193: velocity first, then position with the new velocity
Integrate(sat, dt) ==
    AddVelocity(sat, AddAcceleration(sat.velocity, Acceleration(sat), dt), dt)

\* lines 200-206 without the shift of lines 203-205
RecordTrailUncapped(trail, position) ==
    IF Len(trail) = 0 \/ Length(VecSub(position, trail[Len(trail)])) > 1000
    THEN Append(trail, position)
    ELSE trail

\* lines 200-206 without the distance test of line 201
RecordTrailEveryTick(trail, position) ==
    IF Len(trail) + 1 > maxTrailLength
    THEN Tail(Append(trail, position))
    ELSE Append(trail, position)

\* lines 200-206 with pop() in the place of shift(): beyond the cap the
\* sample just pushed is dropped
RecordTrailPop(trail, position) ==
    IF Len(trail) = 0 \/ Length(VecSub(position, trail[Len(trail)])) > 1000
    THEN IF Len(trail) + 1 > maxTrailLength
         THEN trail
         ELSE Append(trail, position)
    ELSE trail

\* lines 200-206: sample when the trail is empty or the body is more than
\* 1000 m from the last sample; drop the oldest sample beyond the cap
RecordTrail(trail, position) ==
    IF Len(trail) = 0 \/ Length(VecSub(position, trail[Len(trail)])) > 1000
    THEN IF Len(trail) + 1 > maxTrailLength
         THEN Tail(Append(trail, position))
         ELSE Append(trail, position)
    ELSE trail

\* line 216 with the factor 2 outside the root: 2 * Math.sqrt(G * M / distance)
EscapeVelocityTwice(distance) == 2 * Sqrt(MulDiv(GM, 1000, distance \div 1000))

\* Math.sqrt(2 * G * M / distance) in m/s
EscapeVelocity(distance) == Sqrt(MulDiv(2 * GM, 1000, distance \div 1000))

\* lines 215-225: the speed after the step against the escape velocity at
\* `distance`, the variable computed on line 149 before the step
StatusText(sat, distance) ==
    IF Length(sat.velocity) > 1000 * EscapeVelocity(distance)
    THEN "Escaping" ELSE "Orbiting"

\* this.simulation.sceneSetup.trails[0], created on line 197 when missing
FirstTrail(ts) == IF Len(ts) = 0 THEN <<>> ELSE ts[1]

SetFirstTrail(ts, trail) ==
    IF Len(ts) = 0 THEN <<trail>> ELSE [ts EXCEPT ![1] = trail]

\* the crash branch with its early return of line 157 placed after the
\* position update: the status text is written and the body drifts on
CrashBranchDrifting(sat, ts, dt) ==
    [sat |-> AddVelocity(sat, sat.velocity, dt), trails |-> ts,
     status |-> "Crashed"]

\* the crash branch without lines 153-156: the status element keeps the
\* text the step before wrote, Orbiting for a body that fell in
CrashBranchNoStatus(sat, ts, dt) ==
    [sat |-> sat, trails |-> ts, status |-> "Orbiting"]

\* the crash branch with its early return of line 157 placed after the
\* trail update: the position of the wreck is sampled on every tick
CrashBranchSampling(sat, ts, dt) ==
    [sat |-> sat,
     trails |-> SetFirstTrail(ts, Append(FirstTrail(ts), sat.position)),
     status |-> "Crashed"]

\* the crash branch, lines 152-158: only the status text is written
CrashBranch(sat, ts, dt) ==
    [sat |-> sat, trails |-> ts, status |-> "Crashed"]

\* lines 196-225 with the trail update of lines 195-206 placed before the
\* integration: the position the tick started from is sampled
StepOutcomeSamplingBefore(sat, ts, moved) ==
    [sat |-> moved,
     trails |-> SetFirstTrail(ts, RecordTrail(FirstTrail(ts), sat.position)),
     status |-> StatusText(moved, Length(sat.position))]

\* lines 196-225 after the step from sat to moved: the trail sample and the
\* status text
StepOutcome(sat, ts, moved) ==
    [sat |-> moved,
     trails |-> SetFirstTrail(ts, RecordTrail(FirstTrail(ts), moved.position)),
     status |-> StatusText(moved, Length(sat.position))]

\* lines 160-225
StepBranch(sat, ts, dt) == StepOutcome(sat, ts, Integrate(sat, dt))

\* updatePhysics on the first satellite, with dt = deltaTime * timeScale
UpdateFirst(sat, ts, dt) ==
    IF InCrashZone(Length(sat.position))
    THEN CrashBranch(sat, ts, dt)
    ELSE StepBranch(sat, ts, dt)

-----------------------------------------------------------------------------
(* Bounds and inputs                                                       *)

\* satellites ever added
MaxSatellites == 2

\* calls of SceneSetup.addSatellite ever made by the click listeners
MaxLoads == 4

\* frames animated
MaxFrames == 3

\* |x|, |y| of a position, km, and of a velocity, m/s
MaxDistanceKm == 30000

MaxSpeed == 20000

\* values the time-scale controls are set to (0.016 s * 1000 = 16 s)
TimeScales == {0, 1000}

\* option objects passed to SceneSetup.addSatellite
AddOptions ==
    { \* no options: every default
      [none |-> TRUE],
      \* mass 0, everything else by default
      [mass |-> 0],
      \* negative mass, everything else by default
      [mass |-> -1000],
      \* straight down from 100 km with the air switched off
      [position |-> Vec(EARTH_RADIUS + 100000, 0), velocity |-> Vec(-5000000, 0),
       mass |-> 1000, dragCoefficient |-> 22, area |-> 4, airEnabled |-> FALSE],
      \* straight up from 400 km
      [position |-> Vec(EARTH_RADIUS + 400000, 0), velocity |-> Vec(10900000, 0)] }

\* values of the inputs height (km), velocity (m/s), direction (degrees),
\* mass (kg), dragCoeff (tenths) and area (m^2) when a handler reads them
UIInputs ==
    { [height |-> 400, velocity |-> 7800, direction |-> 90,
       mass |-> 1000, dragCoeff |-> 22, area |-> 4] }

Scenarios == {"crash", "orbit", "escape"}

InBounds(sat) ==
    /\ Abs(sat.position.x) <= 1000 * MaxDistanceKm
    /\ Abs(sat.position.y) <= 1000 * MaxDistanceKm
    /\ Abs(sat.velocity.x) <= 1000 * MaxSpeed
    /\ Abs(sat.velocity.y) <= 1000 * MaxSpeed

-----------------------------------------------------------------------------
(* Operations                                                              *)

\* the options both add handlers build from the input fields: two new
\* vectors, mass, dragCoefficient and area
ClickOptions(ui) ==
    [position |-> Vec(EARTH_RADIUS + ui.height * 1000, 0),
     velocity |-> Vec((ui.velocity * Cos4(ui.direction)) \div 10,
                      (ui.velocity * Sin4(ui.direction)) \div 10),
     mass |-> ui.mass, dragCoefficient |-> ui.dragCoeff, area |-> ui.area]

\* Array.prototype.splice(index, 1) that always takes the last element
SpliceLast(seq, index) ==
    IF Len(seq) = 0 THEN seq ELSE SubSeq(seq, 1, Len(seq) - 1)

\* the 0-based place Array.prototype.splice starts at: a negative index
\* counts from the end and is held at 0
SpliceStart(length, index) ==
    IF index < 0 THEN Max(length + index, 0) ELSE index

\* Array.prototype.splice(index, 1) with a 0-based index
Splice(seq, index) ==
    IF SpliceStart(Len(seq), index) >= Len(seq) THEN seq
    ELSE [i \in 1 .. Len(seq) - 1 |->
            IF i <= SpliceStart(Len(seq), index) THEN seq[i] ELSE seq[i + 1]]

\* the value of a select element, a string, as its sequence of characters
Digits == <<"0", "1", "2", "3", "4", "5", "6", "7", "8", "9">>

IsDigit(c) == \E d \in 1 .. 10 : Digits[d] = c

DigitOf(c) == (CHOOSE d \in 1 .. 10 : Digits[d] = c) - 1

\* index.toString() of an index below 10
IndexToString(index) == <<Digits[index + 1]>>

\* the leading digits of chars read as a decimal number, after acc
RECURSIVE ParseDigits(_, _)
ParseDigits(chars, acc) ==
    IF Len(chars) = 0 \/ ~IsDigit(chars[1]) THEN acc
    ELSE ParseDigits(Tail(chars), 10 * acc + DigitOf(chars[1]))

NaN == [nan |-> TRUE, n |-> 0]

\* parseInt(value): an optional sign and the leading digits; NaN without
\* a digit
ParseInt(value) ==
    IF Len(value) > 0 /\ value[1] = "-"
    THEN IF Len(value) > 1 /\ IsDigit(value[2])
         THEN [nan |-> FALSE, n |-> -ParseDigits(Tail(value), 0)]
         ELSE NaN
    ELSE IF Len(value) > 0 /\ IsDigit(value[1])
         THEN [nan |-> FALSE, n |-> ParseDigits(value, 0)]
         ELSE NaN

\* SceneSetup.addSatellite(options), from the end of the model load on:
\* mesh, trail, trail line and physics state are pushed in one turn
addSatellite(options) ==
    /\ nextId <= MaxSatellites
    /\ sceneSatellites' = Append(sceneSatellites, nextId)
    /\ trails' = Append(trails, <<>>)
    /\ trailLines' = Append(trailLines, nextId)
    /\ satellites' = Append(satellites, addSatelliteState(options, nextId))
    /\ nextId' = nextId + 1
    \* controlsManager.updateSatelliteList() rebuilds the list without buttons
    /\ deleteButtons' = FALSE
    /\ UNCHANGED <<status, timeScale, frameCount, followSatelliteIndex,
                   atmosphericDensityCache, densityReturns, heapVars, lastRemoval, loading>>

\* one click on addSatelliteBtn, from the click to the end of both model
\* loads: the handler of ControlsManager (isAdding is false) and the handler
\* of main.ts each call SceneSetup.addSatellite with the options built from
\* the inputs.  listLast tells whether ControlsManager.updateSatelliteList
\* or updateSatelliteUI of main.ts rebuilt the list last.
addSatelliteBtnClick(ui, listLast) ==
    /\ nextId + 1 <= MaxSatellites
    /\ sceneSatellites' = sceneSatellites \o <<nextId, nextId + 1>>
    /\ trails' = trails \o << <<>>, <<>> >>
    /\ trailLines' = trailLines \o <<nextId, nextId + 1>>
    /\ satellites' = satellites \o
                        <<addSatelliteState(ClickOptions(ui), nextId),
                          addSatelliteState(ClickOptions(ui), nextId + 1)>>
    /\ nextId' = nextId + 2
    /\ deleteButtons' = ~listLast
    /\ UNCHANGED <<status, timeScale, frameCount, followSatelliteIndex,
                   atmosphericDensityCache, densityReturns, heapVars,
                   lastRemoval, loading>>

\* isAdding of the click listener of ControlsManager: true from its click
\* to the end of its await
isAdding == \E k \in 1 .. Len(loading) : loading[k].listener = "controls"

\* one click on addSatelliteBtn up to the awaits: the listener of
\* ControlsManager, unless isAdding, and the listener of main.ts each call
\* SceneSetup.addSatellite, which awaits loadAsync before it pushes anything
addSatelliteBtnPressed(ui) ==
    /\ loading' =
          loading
          \o (IF isAdding THEN <<>>
              ELSE <<[listener |-> "controls", options |-> ClickOptions(ui)]>>)
          \o <<[listener |-> "main", options |-> ClickOptions(ui)]>>
    /\ nextId - 1 + Len(loading') <= MaxLoads
    /\ UNCHANGED <<satellites, sceneSatellites, trails, trailLines, status,
                   timeScale, frameCount, followSatelliteIndex, nextId,
                   atmosphericDensityCache, densityReturns, deleteButtons,
                   heapVars, lastRemoval>>

\* registry without the physics state: line 103 of scene-setup.ts moved
\* before the await, where the state is pushed by the click
PushLoadedMeshOnly(states, options, id) == states

\* line 103 of scene-setup.ts: the physics state is pushed in the same
\* task as the mesh, the trail and the trail line
PushLoaded(states, options, id) ==
    Append(states, addSatelliteState(options, id))

\* loadAsync of call k settles (in any order among the calls in flight):
\* lines 87-108 of scene-setup.ts run without another await, then the
\* listener that awaited the call rebuilds the list, ControlsManager without
\* buttons and main.ts with them
loaded(k) ==
    /\ k \in 1 .. Len(loading)
    /\ sceneSatellites' = Append(sceneSatellites, nextId)
    /\ trails' = Append(trails, <<>>)
    /\ trailLines' = Append(trailLines, nextId)
    /\ satellites' = PushLoaded(satellites, loading[k].options, nextId)
    /\ nextId' = nextId + 1
    /\ deleteButtons' = (loading[k].listener = "main")
    /\ loading' = Splice(loading, k - 1)
    /\ UNCHANGED <<status, timeScale, frameCount, followSatelliteIndex,
                   atmosphericDensityCache, densityReturns, heapVars,
                   lastRemoval>>

\* PhysicsEngine.reset() without line 135
resetKeepingTrails ==
    /\ satellites' = <<>>
    /\ sceneSatellites' = <<>>
    /\ trailLines' = <<>>
    /\ UNCHANGED <<trails, status, timeScale, frameCount, followSatelliteIndex,
                   nextId, atmosphericDensityCache, densityReturns,
                   deleteButtons, heapVars, lastRemoval, loading>>

\* PhysicsEngine.reset(): the four collections are emptied; the DOM, the
\* followed index and the density cache are not touched
reset ==
    /\ satellites' = <<>>
    /\ sceneSatellites' = <<>>
    /\ trails' = <<>>
    /\ trailLines' = <<>>
    /\ UNCHANGED <<status, timeScale, frameCount, followSatelliteIndex, nextId,
                   atmosphericDensityCache, densityReturns, deleteButtons,
                   heapVars, lastRemoval, loading>>

\* updatePhysics as a loop over this.satellites: the first satellite takes
\* the step, every other one drifts along its velocity for the same dt
WritePhysicsEvery(step) ==
    /\ InBounds(step.sat)
    /\ satellites' =
          [i \in DOMAIN satellites |->
              IF i = 1 THEN step.sat
              ELSE AddVelocity(satellites[i], satellites[i].velocity,
                               DeltaTimeMs * timeScale)]
    /\ trails' = step.trails
    /\ status' = step.status

\* what updatePhysics leaves behind: the first satellite, the trails and the
\* status text
WritePhysics(step) ==
    /\ InBounds(step.sat)
    /\ satellites' = [satellites EXCEPT ![1] = step.sat]
    /\ trails' = step.trails
    /\ status' = step.status

\* SatelliteSimulation.animate with isRunning, for the frames up to
\* lastFrame: frameCount++, updatePhysics(0.016), and every 60th frame
\* controlsManager.updateSatelliteList(), which rebuilds the list
animateUntil(lastFrame) ==
    /\ frameCount < lastFrame
    /\ frameCount' = frameCount + 1
    /\ IF Len(satellites) = 0
       THEN UNCHANGED <<satellites, trails, status>>
       ELSE WritePhysics(UpdateFirst(satellites[1], trails,
                                     DeltaTimeMs * timeScale))
    /\ deleteButtons' = IF frameCount' % 60 = 0 THEN FALSE ELSE deleteButtons
    /\ UNCHANGED <<sceneSatellites, trailLines, timeScale, followSatelliteIndex,
                   nextId, atmosphericDensityCache, densityReturns, heapVars, lastRemoval, loading>>

animate == animateUntil(MaxFrames)

\* the state resetSatellite writes from the input fields, lines 88-109
ResetState(sat, ui) ==
    [sat EXCEPT
        !.position = Vec(EARTH_RADIUS + ui.height * 1000, 0),
        !.velocity = Vec((ui.velocity * Cos4(ui.direction)) \div 10,
                         (ui.velocity * Sin4(ui.direction)) \div 10),
        !.mass = ui.mass,
        !.dragCoefficient = ui.dragCoeff,
        !.area = ui.area]

\* SatelliteSimulation.resetSatellite with the inputs holding ui
resetSatellite(ui) ==
    LET idx == followSatelliteIndex
    IN  /\ idx < Len(sceneSatellites)
        /\ idx < Len(satellites)
        /\ satellites' = [satellites EXCEPT ![idx + 1] = ResetState(@, ui)]
        /\ trails' = [i \in 1 .. Max(Len(trails), idx + 1) |->
                        IF i = idx + 1 \/ i > Len(trails) THEN <<>> ELSE trails[i]]
        /\ UNCHANGED <<sceneSatellites, trailLines, status, timeScale, frameCount,
                       followSatelliteIndex, nextId, atmosphericDensityCache,
                       densityReturns, deleteButtons, heapVars, lastRemoval, loading>>

\* the values setScenario writes into the height, velocity and direction inputs
ScenarioInputs(scenario, ui) ==
    CASE scenario = "crash" ->
            [ui EXCEPT !.height = 300, !.velocity = 5000, !.direction = 45]
      [] scenario = "orbit" ->
            [ui EXCEPT !.height = 400, !.velocity = 7800, !.direction = 90]
      [] OTHER ->
            [ui EXCEPT !.height = 400, !.velocity = 12000, !.direction = 90]

\* ControlsManager.setScenario
setScenario(scenario, ui) == resetSatellite(ScenarioInputs(scenario, ui))

\* followSelect.value as updateSatelliteList and updateSatelliteUI leave it:
\* the followed index when the list has that option, the empty string
\* otherwise
FollowSelectValue ==
    IF followSatelliteIndex < Len(sceneSatellites)
    THEN IndexToString(followSatelliteIndex) ELSE <<>>

\* the tests of lines 274-279 without selectedIndex < 0
RemovalAcceptsNoLowerBound(value, length) ==
    /\ value # <<>>
    /\ ~ParseInt(value).nan
    /\ ParseInt(value).n < length

\* the tests of lines 274-279: removeSelectedSatellite goes on when the
\* value is not empty and parses to an index of sceneSetup.satellites
RemovalAccepts(value, length) ==
    /\ value # <<>>
    /\ ~ParseInt(value).nan
    /\ ParseInt(value).n >= 0
    /\ ParseInt(value).n < length

\* lines 281-307: the four splices, the mesh and the trail line only when
\* the index holds one, the followed index, and updateSatelliteList(), which
\* rebuilds the list without buttons
removeAt(selectedIndex) ==
    /\ satellites' = Splice(satellites, selectedIndex)
    /\ sceneSatellites' =
          IF selectedIndex >= 0 /\ selectedIndex < Len(sceneSatellites)
          THEN Splice(sceneSatellites, selectedIndex) ELSE sceneSatellites
    /\ trailLines' =
          IF selectedIndex >= 0 /\ selectedIndex < Len(trailLines)
          THEN Splice(trailLines, selectedIndex) ELSE trailLines
    /\ trails' = Splice(trails, selectedIndex)
    /\ followSatelliteIndex' =
          IF followSatelliteIndex >= Len(sceneSatellites')
          THEN Max(0, Len(sceneSatellites') - 1)
          ELSE followSatelliteIndex
    /\ deleteButtons' = FALSE
    /\ UNCHANGED <<status, timeScale, frameCount, nextId,
                   atmosphericDensityCache, densityReturns, heapVars>>

\* ControlsManager.removeSelectedSatellite with the select element showing
\* the followed index, for the requests that pass the tests
removeSelectedSatellite ==
    /\ RemovalAccepts(FollowSelectValue, Len(sceneSatellites))
    /\ removeAt(ParseInt(FollowSelectValue).n)
    /\ UNCHANGED <<lastRemoval, loading>>

\* ControlsManager.removeSelectedSatellite with the select element holding
\* value, the value noted in lastRemoval
removeRequest(value) ==
    /\ lastRemoval' = value
    /\ UNCHANGED loading
    /\ IF RemovalAccepts(value, Len(sceneSatellites))
       THEN removeAt(ParseInt(value).n)
       ELSE UNCHANGED <<satellites, sceneSatellites, trails, trailLines, status,
                        timeScale, frameCount, followSatelliteIndex, nextId,
                        atmosphericDensityCache, densityReturns, deleteButtons,
                        heapVars>>

\* the onclick of the Delete button main.ts puts beside satellite i
deleteButton(i) ==
    /\ deleteButtons
    /\ i < Len(sceneSatellites)
    /\ sceneSatellites' = Splice(sceneSatellites, i)
    /\ trails' = Splice(trails, i)
    /\ trailLines' = Splice(trailLines, i)
    /\ satellites' = Splice(satellites, i)
    \* updateSatelliteUI() rebuilds the list with its buttons
    /\ UNCHANGED <<status, timeScale, frameCount, followSatelliteIndex, nextId,
                   atmosphericDensityCache, densityReturns, deleteButtons,
                   heapVars, lastRemoval, loading>>

\* the change handler of the followSelect element
followSelect(selectedIndex) ==
    /\ selectedIndex < Len(sceneSatellites)
    /\ followSatelliteIndex' = selectedIndex
    /\ UNCHANGED <<satellites, sceneSatellites, trails, trailLines, status,
                   timeScale, frameCount, nextId, atmosphericDensityCache,
                   densityReturns, deleteButtons, heapVars, lastRemoval, loading>>

\* ControlsManager.updateSimulation and the time-scale handlers of main.ts
updateSimulation(newTimeScale) ==
    /\ timeScale' = newTimeScale
    /\ UNCHANGED <<satellites, sceneSatellites, trails, trailLines, status,
                   frameCount, followSatelliteIndex, nextId,
                   atmosphericDensityCache, densityReturns, deleteButtons,
                   heapVars, lastRemoval, loading>>

-----------------------------------------------------------------------------
EmptyCache == [k \in {} |-> 0]

\* lastRemoval before any removal request
NoRequest == <<"none">>

Init ==
    /\ satellites = <<>>
    /\ sceneSatellites = <<>>
    /\ trails = <<>>
    /\ trailLines = <<>>
    /\ status = ""
    /\ timeScale = 1
    /\ frameCount = 0
    /\ followSatelliteIndex = 0
    /\ nextId = 1
    /\ atmosphericDensityCache = EmptyCache
    /\ densityReturns = {}
    /\ deleteButtons = FALSE
    /\ heap = <<>>
    /\ registered = <<>>
    /\ callerVectors = <<>>
    /\ lastRemoval = NoRequest
    /\ loading = <<>>

Next ==
    \/ \E options \in AddOptions : addSatellite(options)
    \/ animate
    \/ \E ui \in UIInputs : resetSatellite(ui)
    \/ \E scenario \in Scenarios, ui \in UIInputs : setScenario(scenario, ui)
    \/ removeSelectedSatellite
    \/ \E selectedIndex \in 0 .. MaxSatellites - 1 : followSelect(selectedIndex)
    \/ \E newTimeScale \in TimeScales : updateSimulation(newTimeScale)
    \/ \E ui \in UIInputs, listLast \in BOOLEAN : addSatelliteBtnClick(ui, listLast)
    \/ \E i \in 0 .. MaxSatellites - 1 : deleteButton(i)

Spec == Init /\ [][Next]_vars

\* the program with PhysicsEngine.reset() called between the frames
NextReset == Next \/ reset

SpecReset == Init /\ [][NextReset]_vars

\* values of followSelect that no option of the list carries
ForeignValues == {<<"a">>, <<"-", "1">>, <<"7">>}

\* the program with removal requests for every value of followSelect: the
\* one the list shows and the foreign ones
NextRemoval ==
    \/ addSatellite([none |-> TRUE])
    \/ \E ui \in UIInputs, listLast \in BOOLEAN : addSatelliteBtnClick(ui, listLast)
    \/ animate
    \/ \E value \in {FollowSelectValue} \cup ForeignValues : removeRequest(value)
    \/ \E i \in 0 .. MaxSatellites - 1 : deleteButton(i)
    \/ \E selectedIndex \in 0 .. MaxSatellites - 1 : followSelect(selectedIndex)

SpecRemoval == Init /\ [][NextRemoval]_vars

NextDensity == \E altitude \in Altitudes : calculateAtmosphericDensity(altitude)

SpecDensity == Init /\ [][NextDensity]_vars

\* altitudes on both sides of the band edges at 11 km and 20 km, and below
\* the ground
EdgeAltitudes ==
    {-500, 0, 10960, 11000, 11040, 11060, 19940, 19960, 20000}

NextEdge == \E altitude \in EdgeAltitudes : calculateAtmosphericDensity(altitude)

SpecEdge == Init /\ [][NextEdge]_vars

\* the program with the model loads in flight: clicks, loads settling in
\* any order, ticks, both removals, reset and resetSatellite in between
NextAsync ==
    \/ \E ui \in UIInputs : addSatelliteBtnPressed(ui)
    \/ \E k \in 1 .. MaxLoads : loaded(k)
    \/ animate
    \/ removeSelectedSatellite
    \/ \E i \in 0 .. MaxLoads - 1 : deleteButton(i)
    \/ reset
    \/ \E ui \in UIInputs : resetSatellite(ui)
    \/ \E selectedIndex \in 0 .. MaxLoads - 1 : followSelect(selectedIndex)

SpecAsync == Init /\ [][NextAsync]_vars

\* altitudes of two buckets, two of them sharing the bucket 0
CacheAltitudes == {0, 40, 50}

\* density calls between the operations on the registry
NextCache ==
    \/ \E altitude \in CacheAltitudes : calculateAtmosphericDensity(altitude)
    \/ addSatellite([none |-> TRUE])
    \/ animate
    \/ removeSelectedSatellite
    \/ reset

SpecCache == Init /\ [][NextCache]_vars

\* option objects with a position the caller chose: none, the centre of
\* the Earth
PositionOptions == {[none |-> TRUE], [position |-> Vec(0, 0)]}

\* the program with satellites added at positions of PositionOptions
NextPosition ==
    \/ \E options \in PositionOptions : addSatellite(options)
    \/ animate
    \/ removeSelectedSatellite
    \/ \E selectedIndex \in 0 .. MaxSatellites - 1 : followSelect(selectedIndex)
    \/ \E newTimeScale \in TimeScales : updateSimulation(newTimeScale)

SpecPosition == Init /\ [][NextPosition]_vars

-----------------------------------------------------------------------------
(* A long run: two satellites on the default orbit at time scale 1000,     *)
(* animated for more frames than a trail holds samples, the user acting    *)
(* in the frames of ClickFrames                                            *)

\* frames animated in the long run
MaxTrailFrames == 1004

\* the frames in which the user clicks
ClickFrames == {2, 1002}

InitTrail ==
    /\ satellites = <<addSatelliteState([none |-> TRUE], 1),
                      addSatelliteState([none |-> TRUE], 2)>>
    /\ sceneSatellites = <<1, 2>>
    /\ trails = << <<>>, <<>> >>
    /\ trailLines = <<1, 2>>
    /\ status = ""
    /\ timeScale = 1000
    /\ frameCount = 0
    /\ followSatelliteIndex = 0
    /\ nextId = 3
    /\ atmosphericDensityCache = EmptyCache
    /\ densityReturns = {}
    /\ deleteButtons = FALSE
    /\ heap = <<>>
    /\ registered = <<>>
    /\ callerVectors = <<>>
    /\ lastRemoval = NoRequest
    /\ loading = <<>>

UserTurn == frameCount \in ClickFrames

NextTrail ==
    \/ animateUntil(MaxTrailFrames)
    \/ UserTurn /\ \E ui \in UIInputs : resetSatellite(ui)
    \/ UserTurn /\ removeSelectedSatellite
    \/ UserTurn /\ \E selectedIndex \in 0 .. 1 : followSelect(selectedIndex)
    \/ UserTurn /\ \E newTimeScale \in TimeScales : updateSimulation(newTimeScale)

SpecTrail == InitTrail /\ [][NextTrail]_vars

-----------------------------------------------------------------------------
(* The scenario presets: one satellite, added with the inputs at their     *)
(* defaults, then a preset button, then frames only                        *)

\* seconds of simulated time animated after the crash preset
MaxCrashSeconds == 1400

\* frames animated after the escape preset
MaxEscapeFrames == 150

\* the state after setScenario(scenario) on one satellite, at time scale ts
InitScenario(scenario, ts) ==
    /\ satellites \in
          {<<ResetState(addSatelliteState(ClickOptions(ui), 1),
                       ScenarioInputs(scenario, ui))>> : ui \in UIInputs}
    /\ sceneSatellites = <<1>>
    /\ trails = << <<>> >>
    /\ trailLines = <<1>>
    /\ status = ""
    /\ timeScale = ts
    /\ frameCount = 0
    /\ followSatelliteIndex = 0
    /\ nextId = 2
    /\ atmosphericDensityCache = EmptyCache
    /\ densityReturns = {}
    /\ deleteButtons = FALSE
    /\ heap = <<>>
    /\ registered = <<>>
    /\ callerVectors = <<>>
    /\ lastRemoval = NoRequest
    /\ loading = <<>>

\* the crash preset at the time scale of the claim, 1, and at the preset
\* time scale 1000
InitCrash == \E ts \in {1, 1000} : InitScenario("crash", ts)

\* the frame that ends MaxCrashSeconds of simulated time at the time scale
LastCrashFrame == (MaxCrashSeconds * 1000) \div (DeltaTimeMs * timeScale)

NextCrash == animateUntil(LastCrashFrame)

\* line 51: animate asks for the next frame before anything else
NextFrame == frameCount < LastCrashFrame /\ frameCount' = frameCount + 1

\* requestAnimationFrame calls animate again after every frame
SpecCrash == InitCrash /\ [][NextCrash]_vars /\ WF_frameCount(NextFrame)

InitEscape == \E ts \in {0, 1, 1000} : InitScenario("escape", ts)

NextEscape == animateUntil(MaxEscapeFrames)

SpecEscape == InitEscape /\ [][NextEscape]_vars

-----------------------------------------------------------------------------
(* The registry with its vectors by reference.  heap holds the              *)
(* THREE.Vector3 objects, a reference being an index into it; registered   *)
(* holds the body states with references in position and velocity;         *)
(* callerVectors holds the references the callers of addSatellite kept.    *)
(* satellites is the registry read through the references.                 *)

\* what the registry would keep without the clone() of lines 118-119: the
\* object passed in
SameRef(ref, fresh) == ref

\* what the registry keeps of a vector passed in: position.clone() and
\* velocity.clone() of lines 118-119 return the fresh object
CloneRef(ref, fresh) == fresh

\* the registry reads through the references of the heap h
Deref(reg, h) ==
    [i \in 1 .. Len(reg) |->
        [reg[i] EXCEPT !.position = h[reg[i].position],
                       !.velocity = h[reg[i].velocity]]]

\* values a caller writes into a vector it kept
CallerValues == {Vec(0, 0), Vec(EARTH_RADIUS + 100000, 0)}

\* a click handler builds its two vectors and SceneSetup.addSatellite
\* registers them: cells p, v are the caller's, cells p + 2, v + 2 the clones
callerAdd(options, p, v) ==
    /\ nextId <= MaxSatellites
    /\ heap' = heap \o <<options.position, options.velocity,
                          options.position, options.velocity>>
    /\ callerVectors' = callerVectors \o <<p, v>>
    /\ registered' = Append(registered,
                            [addSatelliteState(options, nextId) EXCEPT
                                !.position = CloneRef(p, p + 2),
                                !.velocity = CloneRef(v, v + 2)])
    /\ satellites' = Deref(registered', heap')
    /\ sceneSatellites' = Append(sceneSatellites, nextId)
    /\ trails' = Append(trails, <<>>)
    /\ trailLines' = Append(trailLines, nextId)
    /\ nextId' = nextId + 1
    /\ deleteButtons' = FALSE
    /\ UNCHANGED <<status, timeScale, frameCount, followSatelliteIndex,
                   atmosphericDensityCache, densityReturns, lastRemoval, loading>>

\* the caller writes value into the k-th vector it kept
callerMutate(k, value) ==
    /\ k <= Len(callerVectors)
    /\ heap[callerVectors[k]] # value
    /\ heap' = [heap EXCEPT ![callerVectors[k]] = value]
    /\ satellites' = Deref(registered, heap')
    /\ UNCHANGED <<registered, callerVectors, sceneSatellites, trails,
                   trailLines, status, timeScale, frameCount,
                   followSatelliteIndex, nextId, atmosphericDensityCache,
                   densityReturns, deleteButtons, lastRemoval, loading>>

\* updatePhysics writes the step into the vectors of the first state in
\* place (lines 192-193), and the trail and the status text
WriteThrough(first, step) ==
    /\ InBounds(step.sat)
    /\ heap' = [heap EXCEPT ![first.position] = step.sat.position,
                            ![first.velocity] = step.sat.velocity]
    /\ trails' = step.trails
    /\ status' = step.status

\* SatelliteSimulation.animate on the registry by reference
animateByReference ==
    /\ frameCount < MaxFrames
    /\ Len(registered) > 0
    /\ frameCount' = frameCount + 1
    /\ WriteThrough(registered[1],
                    UpdateFirst(satellites[1], trails, DeltaTimeMs * timeScale))
    /\ satellites' = Deref(registered, heap')
    /\ deleteButtons' = IF frameCount' % 60 = 0 THEN FALSE ELSE deleteButtons
    /\ UNCHANGED <<registered, callerVectors, sceneSatellites, trailLines,
                   timeScale, followSatelliteIndex, nextId,
                   atmosphericDensityCache, densityReturns, lastRemoval, loading>>

NextAlias ==
    \/ \E scenario \in Scenarios, ui \in UIInputs :
          callerAdd(ClickOptions(ScenarioInputs(scenario, ui)),
                    Len(heap) + 1, Len(heap) + 2)
    \/ \E k \in 1 .. 2 * MaxSatellites, value \in CallerValues :
          callerMutate(k, value)
    \/ animateByReference

SpecAlias == Init /\ [][NextAlias]_vars

-----------------------------------------------------------------------------
(* Claims about the tick and the registry, checked under Spec              *)

\* a step of animate that runs updatePhysics on a registered first satellite
Tick == frameCount' = frameCount + 1 /\ Len(satellites) > 0

\* a tick that does not take the crash branch
MovingTick == Tick /\ ~InCrashZone(Length(satellites[1].position))

\* the velocity after a step of dt under gravity alone
GravityOnlyVelocity(sat, dt) ==
    LET gravityForce == GravityForce(sat)
        acceleration == Vec(MulDiv(gravityForce.x, 1000, sat.mass),
                            MulDiv(gravityForce.y, 1000, sat.mass))
    IN  VecAdd(sat.velocity, Vec(MulDiv(acceleration.x, dt, 1000),
                                 MulDiv(acceleration.y, dt, 1000)))

\* C1: for a body with airEnabled = false a tick applies no drag: the
\* velocity change of the tick is the gravitational acceleration times dt.
C1_AirDisabledNoDrag ==
    [][(MovingTick /\ ~satellites[1].airEnabled)
          => satellites'[1].velocity =
                GravityOnlyVelocity(satellites[1], DeltaTimeMs * timeScale)]_vars

\* C2: whenever a tick ends with the advanced body at a distance of at most
\* EARTH_RADIUS + 50000 from the centre, the status at the end of that tick
\* is Crashed.
C2_CrashReportedSameTick ==
    [][(Tick /\ InCrashZone(Length(satellites'[1].position)))
          => status' = "Crashed"]_vars

\* the first satellite has been classified Crashed
FirstCrashed ==
    /\ Len(satellites) > 0
    /\ status = "Crashed"
    /\ InCrashZone(Length(satellites[1].position))

\* the step removes the first satellite, by removeSelectedSatellite or by
\* the Delete button of main.ts
RemovalOfFirst ==
    \/ followSatelliteIndex = 0 /\ removeSelectedSatellite
    \/ deleteButton(0)

\* the step is resetSatellite or a scenario preset applied to the first
\* satellite
ResetOfFirst ==
    /\ followSatelliteIndex = 0
    /\ \/ \E ui \in UIInputs : resetSatellite(ui)
       \/ \E scenario \in Scenarios, ui \in UIInputs : setScenario(scenario, ui)

\* the first satellite and the status are as they were
FirstStaysCrashed ==
    /\ Len(satellites') > 0
    /\ satellites'[1] = satellites[1]
    /\ status' = "Crashed"

\* C3 as stated: once a body has been classified Crashed, no operation
\* (tick, resetSatellite or scenario preset, add or remove of other bodies,
\* time-scale change) changes its position or velocity or its status.
C3_CrashedTerminal ==
    [][(FirstCrashed /\ ~RemovalOfFirst) => FirstStaysCrashed]_vars

\* C3 amended: once a body has been classified Crashed, no tick, add or
\* remove of other bodies, reset of another body or time-scale change
\* changes its position, velocity or status; only resetSatellite or a
\* scenario preset applied to that body itself moves it again.
C3_CrashedTerminalUntilReset ==
    [][(FirstCrashed /\ ~RemovalOfFirst /\ ~ResetOfFirst)
          => FirstStaysCrashed]_vars

\* C3 witness: the first satellite fell into the crash zone in one tick, was
\* classified Crashed in the next, and a third tick has run since with a
\* second body registered
C3_Witness ==
    /\ FirstCrashed
    /\ frameCount >= 3
    /\ Len(trails[1]) > 0
    /\ Len(satellites) = 2

\* C4: after a tick that does not take the crash branch the status is
\* Escaping exactly when the speed after the update exceeds
\* sqrt(2 G M / d), d being the distance of the position after the update,
\* and Orbiting otherwise.
C4_StatusFromNewDistance ==
    [][MovingTick
          => status' = StatusText(satellites'[1],
                                  Length(satellites'[1].position))]_vars

\* C5: in every reachable state every registered body has mass > 0.
C5_MassPositive ==
    \A i \in 1 .. Len(satellites) : satellites[i].mass > 0

\* C6: for every supplied mass <= 0, zero or negative, the mass stored for
\* the new body is the default 1000 kg.
C6_NonPositiveMassDefaults ==
    [][\A options \in AddOptions :
          (addSatellite(options) /\ Has(options, "mass") /\ options.mass <= 0)
             => satellites'[Len(satellites')].mass = 1000]_vars

-----------------------------------------------------------------------------
(* Claims about calculateAtmosphericDensity, checked under SpecDensity     *)

\* C7: for every altitude h < 0, density(h) returns the same value as
\* density(0), in every state of the memoization cache.
C7_NegativeAltitudeClamps ==
    \A h \in Altitudes :
        h < 0 => DensityValue(atmosphericDensityCache, h)
                    = DensityValue(atmosphericDensityCache, 0)

\* C8: for every altitude h >= 1,000,000 m, density(h) returns exactly 0,
\* in every state of the memoization cache.
C8_ZeroAboveThousandKm ==
    \A h \in Altitudes :
        h >= 1000000 => DensityValue(atmosphericDensityCache, h).m = 0

\* C9: the value density(h) returns is a value of the formula of the band
\* that contains max(0, h) (taken at an altitude of h's bucket), never a
\* value of a neighbouring band's formula, in every state of the cache.
C9_OwnBandFormula ==
    \A h \in Altitudes :
        \E g \in CacheKey(h) - 50 .. CacheKey(h) + 49 :
            /\ Band(Max(0, g)) = Band(Max(0, h))
            /\ DensityValue(atmosphericDensityCache, h) = BandDensity(g)

\* C10: any two density calls whose altitudes round to the same 100 m
\* bucket returned identical values, whatever the order of the calls.
C10_SameBucketSameValue ==
    \A p, q \in densityReturns :
        CacheKey(p.altitude) = CacheKey(q.altitude) => p.rho = q.rho

\* C10 witness: two calls were made with different altitudes of one bucket
\* for which the formula, computed afresh, gives different values.
C10_Witness ==
    \E p, q \in densityReturns :
        /\ p.altitude # q.altitude
        /\ CacheKey(p.altitude) = CacheKey(q.altitude)
        /\ BandDensity(p.altitude) # BandDensity(q.altitude)

-----------------------------------------------------------------------------
(* Claims about the trails, checked under SpecTrail                        *)

\* C11: in every state between operations every body's trail holds at most
\* maxTrailLength samples.
C11_TrailLengthCapped ==
    \A i \in 1 .. Len(trails) : Len(trails[i]) <= maxTrailLength

\* C11 witness: the first trail is full after more ticks than it holds
\* samples, each of which recorded one
C11_Witness ==
    /\ Len(trails) > 0
    /\ Len(trails[1]) = maxTrailLength
    /\ frameCount > maxTrailLength
    /\ timeScale = 1000

\* C12: in every reachable state any two consecutive samples of a trail are
\* at least 1000 m apart.
C12_SamplesApart ==
    \A i \in 1 .. Len(trails) :
        \A k \in 1 .. Len(trails[i]) - 1 :
            Length(VecSub(trails[i][k + 1], trails[i][k])) >= 1000

\* C12 witness: the oldest sample of a full trail has been evicted, the
\* other body has been removed, and the trail still holds its samples
C12_Witness ==
    /\ Len(satellites) = 1
    /\ Len(trails) = 1
    /\ Len(trails[1]) = maxTrailLength
    /\ frameCount > maxTrailLength + 1

-----------------------------------------------------------------------------
(* Claims about single operations, checked under Spec                      *)

\* C13: a tick whose effective step is zero (timeScale = 0, so dt = 0)
\* leaves position, velocity, mass, dragCoefficient, area and airEnabled of
\* every registered body unchanged.
C13_ZeroStepKeepsBodies ==
    [][(Tick /\ DeltaTimeMs * timeScale = 0) => satellites' = satellites]_vars

\* a zero-step tick has run on a body still in its initial state: the trail
\* holds the initial position, which only a tick that did not move the body
\* can have sampled, and the status text has been written
C13_Witness ==
    /\ Len(satellites) > 0
    /\ timeScale = 0
    /\ frameCount > 0
    /\ status = "Orbiting"
    /\ satellites[1] = addSatelliteState([none |-> TRUE], satellites[1].id)
    /\ trails[1] = <<satellites[1].position>>

-----------------------------------------------------------------------------
(* Claims about the stored vectors, checked under SpecAlias                *)

\* a step in which a caller writes into a vector it kept
CallerMutation ==
    /\ heap' # heap
    /\ registered' = registered
    /\ frameCount' = frameCount

\* a tick of the registry by reference
TickByReference == frameCount' = frameCount + 1 /\ Len(registered) > 0

\* the vectors the callers kept hold the same values after the step
CallerVectorsKept ==
    \A k \in 1 .. Len(callerVectors) :
        heap'[callerVectors[k]] = heap[callerVectors[k]]

\* C14: the registry stores copies of the vectors passed in: a later write
\* by the caller into its position or velocity vector changes no registered
\* body, and a tick changes no vector of a caller.
C14_StoresCopies ==
    [][/\ CallerMutation => satellites' = satellites
       /\ TickByReference => CallerVectorsKept]_vars

\* the caller has overwritten the position vector it passed for the first
\* body and a tick has moved that body since
C14_Witness ==
    /\ Len(registered) > 0
    /\ frameCount > 0
    /\ heap[callerVectors[1]] = Vec(0, 0)
    /\ satellites[1].position # Vec(0, 0)
    /\ Len(trails[1]) > 0
    /\ trails[1][1] # satellites[1].position

-----------------------------------------------------------------------------
(* Claims about removal, reset and the add button                          *)

\* the step takes the body state and the trail at the 0-based index i out
\* of the registry and leaves the others as they were, in their order
RemovedExactly(i) ==
    /\ Len(satellites') = Len(satellites) - 1
    /\ Len(trails') = Len(trails) - 1
    /\ \A k \in 1 .. Len(satellites') :
          satellites'[k] = satellites[IF k <= i THEN k ELSE k + 1]
    /\ \A k \in 1 .. Len(trails') :
          trails'[k] = trails[IF k <= i THEN k ELSE k + 1]

\* the step is a removal of index i, by removeSelectedSatellite or by the
\* Delete button of main.ts
RemovalOf(i) ==
    \/ followSatelliteIndex = i /\ removeSelectedSatellite
    \/ deleteButton(i)

IndexValues(length) == {IndexToString(i) : i \in 0 .. length - 1}

\* the step is a removal request whose value is noted in lastRemoval
RemovalRequest == lastRemoval' # lastRemoval

\* C16: a removal request whose index is out of range, negative or not a
\* number is a no-op: nothing is removed and the followed index is unchanged.
C16_InvalidRemovalNoOp ==
    [][(RemovalRequest /\ lastRemoval' \notin IndexValues(Len(sceneSatellites)))
          => UNCHANGED <<satellites, sceneSatellites, trails, trailLines,
                         followSatelliteIndex>>]_vars

\* a request with a negative index has been made on a registry of two
\* bodies, after the second was followed, and both are still there
C16_Witness ==
    /\ lastRemoval = <<"-", "1">>
    /\ Len(satellites) = 2
    /\ Len(trails) = 2
    /\ followSatelliteIndex = 1

\* C17: after reset() the registry holds zero bodies and zero trails,
\* whatever the state before.
C17_ResetEmpties ==
    [][reset => Len(satellites') = 0 /\ Len(trails') = 0]_vars

\* reset() has emptied a registry of two bodies of which the second was
\* followed; no removal leaves the followed index at 1
C17_Witness ==
    /\ nextId = 3
    /\ Len(satellites) = 0
    /\ Len(trails) = 0
    /\ followSatelliteIndex = 1
    /\ ~deleteButtons
    /\ frameCount > 0

\* the step is one click on the add button
AddClick == \E ui \in UIInputs, listLast \in BOOLEAN : addSatelliteBtnClick(ui, listLast)

\* C18: one click on the Add Satellite button adds exactly one body: one
\* physics state, one mesh, one trail and one trail line.
C18_OneClickOneBody ==
    [][AddClick => /\ Len(satellites') = Len(satellites) + 1
                   /\ Len(sceneSatellites') = Len(sceneSatellites) + 1
                   /\ Len(trails') = Len(trails) + 1
                   /\ Len(trailLines') = Len(trailLines) + 1]_vars

-----------------------------------------------------------------------------
(* Claims about the scenario presets                                       *)

\* C19: the body of the crash preset (height 300 000 m, 5000 m/s at 45
\* degrees, default mass and drag), ticked with dt = 0.016 at time scale 1,
\* eventually is at a distance of at most EARTH_RADIUS + 50000 with the
\* status Crashed.
C19_CrashScenarioCrashes == <>FirstCrashed

\* the body of the crash preset has flown, has come down into the crash
\* zone and is reported Crashed
C19_Witness ==
    /\ FirstCrashed
    /\ frameCount > 50
    /\ Len(trails[1]) > 50
    /\ satellites[1].velocity.x < 0

\* C20: the body of the escape preset (height 400 000 m, 12 000 m/s at 90
\* degrees) has the status Escaping after the first tick and after every
\* later tick.
C20_EscapeScenarioEscaping == frameCount > 0 => status = "Escaping"

\* the body of the escape preset is reported Escaping after a hundred ticks
\* of 16 s, more than 10 000 km from the centre
C20_Witness ==
    /\ frameCount >= 100
    /\ timeScale = 1000
    /\ status = "Escaping"
    /\ Length(satellites[1].position) > 10000000

-----------------------------------------------------------------------------
(* Claims about positions and densities                                    *)

\* C21: in every reachable state no registered body has the zero vector as
\* its position, including right after an add with any position the caller
\* supplies.
C21_PositionNeverZero ==
    \A i \in 1 .. Len(satellites) : satellites[i].position # Vec(0, 0)

\* rho1 >= rho2 for densities m * 10^e with mantissas brought to five digits
DensityGeq(rho1, rho2) ==
    \/ rho2.m = 0
    \/ /\ rho1.m # 0
       /\ \/ rho1.e > rho2.e
          \/ rho1.e = rho2.e /\ rho1.m >= rho2.m

\* C22: for any two altitudes h1 <= h2 of one band, density(h1) >=
\* density(h2), in every state of the cache, also when the two altitudes
\* fall in different buckets that earlier calls filled.
C22_MonotoneInBand ==
    \A h1, h2 \in EdgeAltitudes :
        (h1 <= h2 /\ Band(Max(0, h1)) = Band(Max(0, h2)))
            => DensityGeq(DensityValue(atmosphericDensityCache, h1),
                          DensityValue(atmosphericDensityCache, h2))

\* the buckets 11000 and 11100 are both filled, the first by a call below
\* the band edge, so that density(11040) is a value of the band below while
\* density(11060) is a value of its own band
C22_Witness ==
    /\ {11000, 11100} \subseteq DOMAIN atmosphericDensityCache
    /\ atmosphericDensityCache[11000] = BandDensity(10960)
    /\ atmosphericDensityCache[11000] # BandDensity(11040)
    /\ atmosphericDensityCache[11100] = BandDensity(11060)

-----------------------------------------------------------------------------
(* Claims about the effect of one tick                                     *)

\* a tick that takes the crash branch
CrashTick == Tick /\ InCrashZone(Length(satellites[1].position))

\* C23: a tick that starts with the first body at a distance of at most
\* EARTH_RADIUS + 50000 changes no body's position or velocity and appends
\* no trail sample; of the registry, the trails and the status it only sets
\* the status to Crashed.
C23_CrashTickOnlyStatus ==
    [][CrashTick
          => /\ satellites' = satellites
             /\ trails' = trails
             /\ sceneSatellites' = sceneSatellites
             /\ trailLines' = trailLines
             /\ status' = "Crashed"]_vars

\* a body that fell from 100 km in one step of 16 s, left one sample on its
\* trail and has since been found in the crash zone by a later tick
C23_Witness ==
    /\ FirstCrashed
    /\ frameCount >= 2
    /\ Len(trails[1]) = 1
    /\ ~satellites[1].airEnabled

C25_SemiImplicitEuler ==
    [][MovingTick
          => /\ satellites'[1].velocity =
                   AddAcceleration(satellites[1].velocity,
                                   Acceleration(satellites[1]),
                                   DeltaTimeMs * timeScale)
             /\ satellites'[1].position =
                   VecAdd(satellites[1].position,
                          Vec(TimesDt(satellites'[1].velocity.x,
                                      DeltaTimeMs * timeScale),
                              TimesDt(satellites'[1].velocity.y,
                                      DeltaTimeMs * timeScale)))]_vars

\* a step of 16 s has moved the default body: it has gone more than 100 km
\* along y and gravity has turned its velocity towards the Earth
C25_Witness ==
    /\ Len(satellites) > 0
    /\ frameCount >= 1
    /\ timeScale = 1000
    /\ status = "Orbiting"
    /\ satellites[1].position.y > 100000
    /\ satellites[1].velocity.x < 0

\* the tick samples the position on a trail that is full
FullTrailSample ==
    /\ MovingTick
    /\ Len(trails) > 0
    /\ Len(trails[1]) = maxTrailLength
    /\ Length(VecSub(satellites'[1].position, trails[1][maxTrailLength])) > 1000

\* C26: appending to a trail that already holds maxTrailLength samples
\* evicts exactly the oldest one: the new trail is the old one without its
\* first sample, followed by the new sample.
C26_EvictsOldest ==
    [][FullTrailSample
          => trails'[1] = Append(Tail(trails[1]), satellites'[1].position)]_vars

\* two samples have been evicted from a full trail: it is full, its last
\* sample is the position of the body and 1002 ticks have each sampled
C26_Witness ==
    /\ Len(satellites) = 2
    /\ frameCount = maxTrailLength + 2
    /\ Len(trails[1]) = maxTrailLength
    /\ trails[1][maxTrailLength] = satellites[1].position

-----------------------------------------------------------------------------
(* Claims about the density cache and the parallel collections             *)

\* C27: the density cache is append-only: once a bucket has an entry, no
\* later operation (density call, tick, add, remove, reset) changes or
\* removes it.
C27_CacheAppendOnly ==
    [][\A k \in DOMAIN atmosphericDensityCache :
          /\ k \in DOMAIN atmosphericDensityCache'
          /\ atmosphericDensityCache'[k] = atmosphericDensityCache[k]]_vars

\* the bucket 0 holds the density of altitude 0, a later call for altitude
\* 40 has hit it, and a body has been added and ticked since the registry
\* was last empty
C27_Witness ==
    /\ 0 \in DOMAIN atmosphericDensityCache
    /\ atmosphericDensityCache[0] = BandDensity(0)
    /\ atmosphericDensityCache[0] # BandDensity(40)
    /\ [altitude |-> 40, rho |-> BandDensity(0)] \in densityReturns
    /\ Len(satellites) > 0
    /\ status = "Orbiting"

\* C28: in every reachable state, under any interleaving of the add
\* completions with removals, reset, resetSatellite and ticks, the physics
\* states, the meshes, the trails and the trail lines have the same length.
C28_ParallelCollections ==
    /\ Len(satellites) = Len(sceneSatellites)
    /\ Len(trails) = Len(sceneSatellites)
    /\ Len(trailLines) = Len(sceneSatellites)

\* a second click came while the first load of ControlsManager was still in
\* flight, one body has been loaded, ticked and followed by a removal, and
\* loads are still in flight
C28_Witness ==
    /\ Len(loading) >= 2
    /\ isAdding
    /\ nextId >= 3
    /\ Len(satellites) = 1
    /\ frameCount >= 1
    /\ Len(trails[1]) > 0

-----------------------------------------------------------------------------
(* Claims about the trail head and the followed index                      *)

\* C29: after every tick that integrates the first body (the registry is
\* not empty and the body is outside the crash zone when the tick starts),
\* the trail of that body is not empty and its last sample lies within
\* 1000 m of the position the body now has.
C29_TrailFollowsBody ==
    [][MovingTick
          => /\ Len(trails') > 0
             /\ Len(trails'[1]) > 0
             /\ Length(VecSub(satellites'[1].position,
                              trails'[1][Len(trails'[1])])) <= 1000]_vars

\* two ticks of 16 ms: the first sampled the position, the second moved the
\* body by 125 m and sampled nothing, so the last sample is behind the body
C29_Witness ==
    /\ Len(satellites) > 0
    /\ frameCount >= 2
    /\ timeScale = 1
    /\ status = "Orbiting"
    /\ Len(trails[1]) = 1
    /\ trails[1][1] # satellites[1].position

\* the step removes a body, by removeSelectedSatellite or by a Delete button
SomeRemoval ==
    \/ removeSelectedSatellite
    \/ \E i \in 0 .. MaxSatellites - 1 : deleteButton(i)

\* C30: after any removal of a body, by the Remove button or by a Delete
\* button of the list, if a body remains then the followed index is an
\* index of the registry: 0 <= followSatelliteIndex < number of bodies.
C30_FollowIndexValid ==
    [][(SomeRemoval /\ Len(satellites') > 0)
          => (0 <= followSatelliteIndex'
              /\ followSatelliteIndex' < Len(satellites'))]_vars

====
